---- MODULE Spec2Model ----
(***************************************************************************)
(* A model of daily_wx.py: the secret loader, the image retriever, the     *)
(* animation builder and the report publisher, as run by the entry point.  *)
(*                                                                         *)
(* Strings are TLC strings.  Dates are proleptic Gregorian ordinals, as    *)
(* datetime.date.toordinal() counts them (0001-01-01 is day 1).            *)
(* The file system under DATA_DIR is a function from a path relative to    *)
(* DATA_DIR (its parent directory and its name) to the file's content.     *)
(***************************************************************************)
EXTENDS Integers, Sequences, FiniteSets, TLC

VARIABLES
    TODAY,      \* module-level TODAY, fixed when the process starts
    fs,         \* files under DATA_DIR: path -> content
    dirs,       \* directories that exist under DATA_DIR
    pc,         \* position of the running process
    exc,        \* the uncaught exception that ended the process, or "none"
    run,        \* number of the current process run
    bad,        \* non-200 / non-ok answers the environment has given so far
    model,      \* retrieve_imgs / build_gif argument
    filetype,   \* retrieve_imgs argument
    span_days,  \* retrieve_imgs argument
    dates_str,  \* retrieve_imgs local
    filenames,  \* retrieve_imgs local
    url_dict,   \* retrieve_imgs local, insertion ordered: <<filename, url>> pairs
    i,          \* retrieve_imgs loop index (0-based, as enumerate counts)
    resp,       \* status code of the last response, 0 before the first GET
    gets,       \* URLs requested with GET by the current call, in order
    cache0,     \* the paths under DATA_DIR when the current call was entered
    props,      \* __main__ props: key -> value
    model_map,  \* __main__ model_map: insertion ordered <<mname, dict>> pairs
    mi,         \* __main__ loop position in model_map
    log,        \* what the current run has done so far, in order
    secrets_file, \* the lines of secretprops.properties
    gifs,       \* send_slack_message_blocks local: the gifs still to upload
    uploads,    \* files_upload_v2 calls of the current run, in order
    blocks,     \* send_slack_message_blocks local
    posted      \* chat_postMessage calls of the current run, in order

vars == <<TODAY, fs, dirs, pc, exc, run, bad, model, filetype, span_days,
          dates_str, filenames, url_dict, i, resp, gets, cache0, props, model_map,
          mi, log, secrets_file, gifs, uploads, blocks, posted>>

retrVars == <<model, filetype, span_days, dates_str, filenames, url_dict, i,
              resp, gets, cache0>>
mainVars == <<props, model_map, mi, secrets_file>>
pubVars  == <<gifs, uploads, blocks, posted>>

-----------------------------------------------------------------------------
(* Strings *)

\* str.endswith
EndsWith(s, suf) ==
    /\ Len(s) >= Len(suf)
    /\ SubSeq(s, Len(s) - Len(suf) + 1, Len(s)) = suf

\* str.split(sep) for a one-character separator: the pieces between the
\* separators, in order (one more piece than there are separators)
Split(s, sep) ==
    LET at == {k \in 1..Len(s) : SubSeq(s, k, k) = sep}
        nth(j) == CHOOSE k \in at : Cardinality({x \in at : x < k}) = j - 1
        from(j) == IF j = 1 THEN 1 ELSE nth(j - 1) + 1
        upto(j) == IF j = Cardinality(at) + 1 THEN Len(s) ELSE nth(j) - 1
    IN [j \in 1..(Cardinality(at) + 1) |-> SubSeq(s, from(j), upto(j))]

\* sep.join(parts)
RECURSIVE Join(_, _)
Join(sep, parts) ==
    IF parts = <<>> THEN ""
    ELSE IF Len(parts) = 1 THEN parts[1]
    ELSE parts[1] \o sep \o Join(sep, Tail(parts))

\* list[:-1]
AllButLast(parts) == SubSeq(parts, 1, Len(parts) - 1)

\* pathlib: DATA_DIR.joinpath('<parent>/<name>'), its final component, its parent
JoinPath(parent, name) == [parent |-> parent, name |-> name]
PathName(p) == p.name
PathParent(p) == p.parent

\* the characters the paths are made of, in code point order
Alphabet == "-./0123456789ABCDEFGHIJKLMNOPQRSTUVWXYZ_abcdefghijklmnopqrstuvwxyz"

\* ord(c), up to the order it puts on the characters
CharRank ==
    [c \in {SubSeq(Alphabet, k, k) : k \in 1..Len(Alphabet)} |->
        CHOOSE k \in 1..Len(Alphabet) : SubSeq(Alphabet, k, k) = c]

\* the length of the longest common prefix of a and b, known to lie in lo..hi
RECURSIVE CommonPrefix(_, _, _, _)
CommonPrefix(a, b, lo, hi) ==
    IF lo = hi THEN lo
    ELSE LET mid == (lo + hi + 1) \div 2
         IN IF SubSeq(a, 1, mid) = SubSeq(b, 1, mid)
            THEN CommonPrefix(a, b, mid, hi)
            ELSE CommonPrefix(a, b, lo, mid - 1)

\* a < b for str: at the first character that differs the code points decide,
\* and a proper prefix comes first
StrLess(a, b) ==
    LET n == IF Len(a) < Len(b) THEN Len(a) ELSE Len(b)
        k == CommonPrefix(a, b, 0, n) + 1
    IN IF k > Len(b) THEN FALSE
       ELSE IF k > Len(a) THEN TRUE
       ELSE CharRank[SubSeq(a, k, k)] < CharRank[SubSeq(b, k, k)]

-----------------------------------------------------------------------------
(* Dates *)

\* the (year, month, day) of an ordinal, as datetime computes it
YMD(n) ==
    LET z   == n + 305
        era == z \div 146097
        doe == z - era * 146097
        yoe == (doe - doe \div 1460 + doe \div 36524 - doe \div 146096) \div 365
        doy == doe - (365 * yoe + yoe \div 4 - yoe \div 100)
        mp  == (5 * doy + 2) \div 153
        d   == doy - (153 * mp + 2) \div 5 + 1
        m   == IF mp < 10 THEN mp + 3 ELSE mp - 9
        y   == yoe + era * 400 + (IF m <= 2 THEN 1 ELSE 0)
    IN [y |-> y, m |-> m, d |-> d]

\* a two-digit, zero-padded field
Pad2(n) == IF n < 10 THEN "0" \o ToString(n) ELSE ToString(n)

\* strftime('%Y%m%d')
FmtCompact(n) == LET t == YMD(n) IN ToString(t.y) \o Pad2(t.m) \o Pad2(t.d)

\* format spec %F: %Y-%m-%d
FmtF(n) == LET t == YMD(n) IN ToString(t.y) \o "-" \o Pad2(t.m) \o "-" \o Pad2(t.d)

-----------------------------------------------------------------------------
(* Bounds and the inputs the environment chooses from *)

MaxRuns == 2        \* process runs (calls, for the retriever alone) in a behaviour
MaxSpan == 2        \* largest span_days the retriever alone is called with
MaxBad == 1         \* non-200 and non-ok answers the environment gives in a behaviour

\* the day the first process of the entry point runs on: 2024-03-02 (the window
\* then crosses the end of February in a leap year)
Todays == {738947}

\* the days the retriever alone is run on: 2024-01-03 and 2024-01-04
TodaysR == {738888, 738889}

\* status codes the archive answers with
Statuses == {200, 204, 404}

BASE_URL == "https://weather.ral.ucar.edu"

\* the deployment's model_map, in insertion order
ModelMap0 ==
    << <<"upaCNTR_200", [name |-> "Winds @ 200mb", filetype |-> ".gif"]>>,
       <<"KFWD", [name |-> "Skew-T/Log-P", filetype |-> ".png"]>> >>

\* (model, filetype) pairs the retriever alone is called with
RetrInputs == {<<"M1", ".png">>, <<"upaCNTR_200", ".gif">>}

-----------------------------------------------------------------------------
(* The file system *)

\* Path.open('wb') and write: create or replace the file at path p
WriteFile(files, p, content) ==
    [q \in DOMAIN files \cup {p} |-> IF q = p THEN content ELSE files[q]]

\* DATA_DIR.glob('**/*<suffix>'), files only
GlobSuffix(files, suffix) ==
    {p \in DOMAIN files : EndsWith(PathName(p), suffix)}

\* DATA_DIR.joinpath(d).glob('**/*'): everything below directory d
GlobUnder(files, d) == {p \in DOMAIN files : PathParent(p) = d}

-----------------------------------------------------------------------------
(* retrieve_imgs *)

\* range(span_days - 1, -1, -1): a window that ends today
RangeDownToToday(n) == [k \in 1..n |-> n - k]

\* range(span_days, 0, -1)
RangeDown(n) == [k \in 1..n |-> n - k + 1]

\* the dates to look up
DatesStr(today, sd) ==
    LET r == RangeDown(sd) IN [k \in 1..Len(r) |-> FmtCompact(today - r[k])]

\* the names of the files already under DATA_DIR for this model
Filenames(files, m, ft) == {PathName(p) : p \in GlobSuffix(files, m \o ft)}

\* the name of one frame
Filename(dt, tod, m, ft) == dt \o "_" \o tod \o "0000_" \o m \o ft

Url(dt, filename) == BASE_URL \o "/data/upper/" \o dt \o "/" \o filename

\* the two run times of each date, dates in order
Candidates(dates) ==
    [k \in 1..(2 * Len(dates)) |->
        [dt |-> dates[(k + 1) \div 2], tod |-> IF k % 2 = 1 THEN "00" ELSE "12"]]

\* dict[key] = value on an insertion-ordered dict
DictSet(d, key, value) ==
    IF \E j \in 1..Len(d) : d[j][1] = key
    THEN [j \in 1..Len(d) |-> IF d[j][1] = key THEN <<key, value>> ELSE d[j]]
    ELSE Append(d, <<key, value>>)

\* the loop without its skip of the files already there
BuildUrlDictNoSkip(cands, names, m, ft, acc) ==
    [k \in 1..Len(cands) |->
        LET filename == Filename(cands[k].dt, cands[k].tod, m, ft)
        IN <<filename, Url(cands[k].dt, filename)>>]

\* the loop that builds url_dict, skipping what is already there
RECURSIVE BuildUrlDict(_, _, _, _, _)
BuildUrlDict(cands, names, m, ft, acc) ==
    IF cands = <<>> THEN acc
    ELSE LET c == Head(cands)
             filename == Filename(c.dt, c.tod, m, ft)
         IN IF filename \in names
            THEN BuildUrlDict(Tail(cands), names, m, ft, acc)
            ELSE BuildUrlDict(Tail(cands), names, m, ft,
                              DictSet(acc, filename, Url(c.dt, filename)))

UrlDict(files, today, m, ft, sd) ==
    BuildUrlDict(Candidates(DatesStr(today, sd)), Filenames(files, m, ft),
                 m, ft, <<>>)

\* Response.raise_for_status raises for the 4xx and 5xx codes
RaisesForStatus(status) == 400 <= status /\ status < 600

\* retrieve_imgs is entered: the dates, the scan and url_dict (lines 26-39)
RetrieveEntry(today, m, ft, sd) ==
    /\ model' = m
    /\ filetype' = ft
    /\ span_days' = sd
    /\ dates_str' = DatesStr(today, sd)
    /\ filenames' = Filenames(fs, m, ft)
    /\ url_dict' = UrlDict(fs, today, m, ft, sd)
    /\ i' = 0
    /\ resp' = 0
    /\ gets' = <<>>
    /\ cache0' = DOMAIN fs
    /\ pc' = "retr_loop"

\* one iteration of the download loop
RetrieveGet(status) ==
    /\ pc = "retr_loop"
    /\ i < Len(url_dict)
    /\ status # 200 => bad < MaxBad
    /\ LET filename == url_dict[i + 1][1]
           url == url_dict[i + 1][2]
           filepath == JoinPath(model, filename)
           dirs1 == IF i = 0 THEN dirs \cup {PathParent(filepath)} ELSE dirs
       IN /\ dirs' = dirs1
          /\ gets' = Append(gets, url)
          /\ resp' = status
          /\ bad' = IF status # 200 THEN bad + 1 ELSE bad
          /\ log' = IF status # 200 THEN Append(log, <<"non200", status>>) ELSE log
          /\ IF status = 200
             THEN IF PathParent(filepath) \in dirs1
                  THEN /\ fs' = WriteFile(fs, filepath, <<"frame", run>>)
                       /\ i' = i + 1
                       /\ UNCHANGED <<pc, exc>>
                  ELSE /\ pc' = "raised"
                       /\ exc' = "FileNotFoundError"
                       /\ UNCHANGED <<fs, i>>
             ELSE IF RaisesForStatus(status)
                  THEN /\ pc' = "raised"
                       /\ exc' = "HTTPError"
                       /\ UNCHANGED <<fs, i>>
                  ELSE /\ i' = i + 1
                       /\ UNCHANGED <<fs, pc, exc>>
    /\ UNCHANGED <<TODAY, run, model, filetype, span_days, dates_str, filenames,
                   url_dict, cache0, mainVars, pubVars>>

\* the download loop is exhausted and retrieve_imgs returns
RetrieveReturn ==
    /\ pc = "retr_loop"
    /\ i = Len(url_dict)
    /\ pc' = "retr_done"
    /\ UNCHANGED <<TODAY, fs, dirs, exc, run, bad, log, retrVars, mainVars,
                   pubVars>>

-----------------------------------------------------------------------------
(* The retriever alone: a sequence of processes, each calling retrieve_imgs *)

\* the frames of one date that an earlier run left under DATA_DIR
FramesOf(n, m, ft) ==
    {JoinPath(m, Filename(FmtCompact(n), tod, m, ft)) : tod \in {"00", "12"}}

\* caches the retriever alone starts from: any part of the M1 frames of 2024-01-01
RetrCaches == SUBSET FramesOf(738886, "M1", ".png")

InitR ==
    /\ TODAY = 0
    /\ \E c \in RetrCaches :
          /\ fs = [p \in c |-> <<"frame", 0>>]
          /\ dirs = {PathParent(p) : p \in c}
    /\ pc = "idle"
    /\ exc = "none"
    /\ run = 0
    /\ bad = 0
    /\ model = ""
    /\ filetype = ""
    /\ span_days = 0
    /\ dates_str = <<>>
    /\ filenames = {}
    /\ url_dict = <<>>
    /\ i = 0
    /\ resp = 0
    /\ gets = <<>>
    /\ cache0 = {}
    /\ props = <<>>
    /\ model_map = <<>>
    /\ mi = 0
    /\ log = <<>>
    /\ secrets_file = <<>>
    /\ gifs = {}
    /\ uploads = <<>>
    /\ blocks = <<>>
    /\ posted = <<>>

\* a process starts (TODAY is read) and calls retrieve_imgs
CallRetrieve ==
    /\ pc \in {"idle", "retr_done", "raised"}
    /\ run < MaxRuns
    /\ run' = run + 1
    /\ exc' = "none"
    /\ \E today \in TodaysR, inp \in RetrInputs, sd \in 0..MaxSpan :
          /\ TODAY' = today
          /\ RetrieveEntry(today, inp[1], inp[2], sd)
          /\ log' = << <<"retrieve", inp[1]>> >>
    /\ UNCHANGED <<fs, dirs, bad, mainVars, pubVars>>

NextR ==
    \/ CallRetrieve
    \/ \E status \in Statuses : RetrieveGet(status)
    \/ RetrieveReturn

SpecR == InitR /\ [][NextR]_vars

-----------------------------------------------------------------------------
(* read_secrets *)

\* str.strip(), for the blanks a line can carry
RECURSIVE LStrip(_)
LStrip(s) == IF s # "" /\ Head(s) = " " THEN LStrip(Tail(s)) ELSE s

RECURSIVE RStrip(_)
RStrip(s) ==
    IF s # "" /\ SubSeq(s, Len(s), Len(s)) = " "
    THEN RStrip(SubSeq(s, 1, Len(s) - 1))
    ELSE s

Strip(s) == RStrip(LStrip(s))

\* str.startswith, one character
StartsWith(s, c) == s # "" /\ Head(s) = c

\* str.split(sep, 1): at most one split, at the first separator
RECURSIVE SplitOnceFrom(_, _, _)
SplitOnceFrom(s, sep, cur) ==
    IF s = "" THEN <<cur>>
    ELSE IF Head(s) = sep THEN <<cur, Tail(s)>>
    ELSE SplitOnceFrom(Tail(s), sep, cur \o Head(s))

SplitOnce(s, sep) == SplitOnceFrom(s, sep, "")

\* dict[key] = value on a dict held as a function
DictPut(d, key, value) ==
    [k \in DOMAIN d \cup {key} |-> IF k = key THEN value ELSE d[k]]

\* the loop over the lines: the dict, or the ValueError of a line without '='
RECURSIVE ReadLines(_, _)
ReadLines(lines, secrets) ==
    IF lines = <<>> THEN [raised |-> FALSE, secrets |-> secrets]
    ELSE LET item == Head(lines)
         IN IF StartsWith(Strip(item), "#") \/ Strip(item) = ""
            THEN ReadLines(Tail(lines), secrets)
            ELSE LET kv == SplitOnce(item, "=")
                 IN IF Len(kv) # 2
                    THEN [raised |-> TRUE, secrets |-> secrets]
                    ELSE ReadLines(Tail(lines),
                                   DictPut(secrets, kv[1], Strip(kv[2])))

read_secrets(lines) == ReadLines(lines, <<>>)

-----------------------------------------------------------------------------
(* build_gif *)

\* Path order: the parts compared in turn
PathLess(p, q) ==
    IF p.parent = q.parent THEN StrLess(p.name, q.name)
    ELSE StrLess(p.parent, q.parent)

\* x put at its place in an ascending sequence of paths
RECURSIVE InsertPath(_, _)
InsertPath(x, seq) ==
    IF seq = <<>> THEN <<x>>
    ELSE IF PathLess(x, Head(seq)) THEN <<x>> \o seq
    ELSE <<Head(seq)>> \o InsertPath(x, Tail(seq))

\* sorted(): a finite set of paths in ascending order
RECURSIVE SortedPaths(_)
SortedPaths(S) ==
    IF S = {} THEN <<>>
    ELSE LET x == CHOOSE y \in S : TRUE
         IN InsertPath(x, SortedPaths(S \ {x}))

\* the first image taken off the iterator and left out of the animation
GifFramesRestOnly(files, m) ==
    LET all == SortedPaths(GlobUnder(files, m))
    IN IF all = <<>> THEN all ELSE Tail(all)

\* the images build_gif opens, in the order it opens them
GifFrames(files, m) == SortedPaths(GlobUnder(files, m))

\* where build_gif saves the animation
GifPath(m, today) == JoinPath("gifs", m \o "_" \o FmtF(today) \o ".gif")

\* the animation img.save writes: the first image, then append_images
GifContent(frames) ==
    [format |-> "GIF", frames |-> frames, duration |-> 300, loop |-> 3]

\* build_gif with a default for next(): no frames, an empty animation
BuildGifEmptyAnimation(m, next) ==
    /\ model' = m
    /\ IF PathParent(GifPath(m, TODAY)) \notin dirs
       THEN /\ pc' = "raised"
            /\ exc' = "FileNotFoundError"
            /\ UNCHANGED fs
       ELSE /\ pc' = next
            /\ fs' = WriteFile(fs, GifPath(m, TODAY), GifContent(GifFrames(fs, m)))
            /\ UNCHANGED exc

\* build_gif(m), continuing at pc value `next` when it returns
BuildGif(m, next) ==
    LET frames == GifFrames(fs, m)
        out == GifPath(m, TODAY)
    IN /\ model' = m
       /\ IF frames = <<>>
          THEN /\ pc' = "raised"
               /\ exc' = "StopIteration"
               /\ UNCHANGED fs
          ELSE IF PathParent(out) \notin dirs
          THEN /\ pc' = "raised"
               /\ exc' = "FileNotFoundError"
               /\ UNCHANGED fs
          ELSE /\ pc' = next
               /\ fs' = WriteFile(fs, out, GifContent(frames))
               /\ UNCHANGED exc

-----------------------------------------------------------------------------
(* The builder alone: a sequence of processes, each calling build_gif *)

\* the builder alone is run on 2024-01-03 or the day after
TodayB == 738888

\* what the builder alone starts from: any part of the M1 frames of two days, and
\* perhaps an animation of M1 an earlier run made that day
BuildCaches ==
    {[p \in c \cup g |->
        IF p \in c THEN <<"frame", 0>> ELSE GifContent(<<"earlier">>)] :
      c \in SUBSET (FramesOf(TodayB - 2, "M1", ".png")
                      \cup FramesOf(TodayB - 1, "M1", ".png")),
      g \in {{}, {GifPath("M1", TodayB)}}}

InitB ==
    /\ TODAY \in {TodayB, TodayB + 1}
    /\ fs \in BuildCaches
    /\ \E d \in {{}, {"gifs"}} : dirs = {PathParent(p) : p \in DOMAIN fs} \cup d
    /\ pc = "idle"
    /\ exc = "none"
    /\ run = 0
    /\ bad = 0
    /\ model = ""
    /\ filetype = ""
    /\ span_days = 0
    /\ dates_str = <<>>
    /\ filenames = {}
    /\ url_dict = <<>>
    /\ i = 0
    /\ resp = 0
    /\ gets = <<>>
    /\ cache0 = {}
    /\ props = <<>>
    /\ model_map = <<>>
    /\ mi = 0
    /\ log = <<>>
    /\ secrets_file = <<>>
    /\ gifs = {}
    /\ uploads = <<>>
    /\ blocks = <<>>
    /\ posted = <<>>

\* a process starts and calls build_gif
CallBuildGif ==
    /\ pc \in {"idle", "build_done", "raised"}
    /\ run < MaxRuns
    /\ run' = run + 1
    /\ \E m \in {"M1", "KFWD"} :
          /\ log' = << <<"build", m>> >>
          /\ BuildGif(m, "build_done")
    /\ UNCHANGED <<TODAY, dirs, bad, filetype, span_days, dates_str, filenames,
                   url_dict, i, resp, gets, cache0, mainVars, pubVars>>

NextB == CallBuildGif

SpecB == InitB /\ [][NextB]_vars

-----------------------------------------------------------------------------
(* send_slack_message_blocks *)

\* the gifs of today in DATA_DIR/gifs
TodaysGifs(files, today) ==
    {p \in DOMAIN files :
        PathParent(p) = "gifs" /\ EndsWith(PathName(p), FmtF(today) \o ".gif")}

\* the model name of a gif: all the '_' pieces of its name but the last
Mname(gifname) == Join("_", AllButLast(Split(gifname, "_")))

\* dict.get(key): None when the key is missing
DictGet(d, key) == IF key \in DOMAIN d THEN d[key] ELSE "None"

\* the position of key in an insertion-ordered dict, 0 when it is missing
KeyIndex(d, key) ==
    IF \E j \in 1..Len(d) : d[j][1] = key
    THEN CHOOSE j \in 1..Len(d) : d[j][1] = key
    ELSE 0

\* the id stored in every entry of model_map
SetFileIdEverywhere(mm, mname, id) ==
    [j \in 1..Len(mm) |-> <<mm[j][1], DictPut(mm[j][2], "gif-file-id", id)>>]

\* model_map[mname]['gif-file-id'] = id
SetFileId(mm, mname, id) ==
    [j \in 1..Len(mm) |->
        IF mm[j][1] = mname
        THEN <<mname, DictPut(mm[j][2], "gif-file-id", id)>>
        ELSE mm[j]]

\* the id the platform gives the n-th file uploaded in run r
FileId(r, n) == "F" \o ToString(r) \o "-" \o ToString(n)

HeaderBlock(today) ==
    [type |-> "header",
     text |-> [type |-> "plain_text", text |-> "WX Report for " \o FmtF(today),
               emoji |-> TRUE]]

ImageBlock(model_dict) ==
    [type |-> "image",
     title |-> [type |-> "plain_text", text |-> model_dict["name"], emoji |-> TRUE],
     slack_file |-> [id |-> model_dict["gif-file-id"]],
     alt_text |-> "poopie"]

DividerBlock == [type |-> "divider"]

\* the blocks with the models without a 'gif-file-id' skipped
RECURSIVE BuildBlocksSkipping(_, _)
BuildBlocksSkipping(mm, acc) ==
    IF mm = <<>> THEN [raised |-> FALSE, blocks |-> acc]
    ELSE LET model_dict == Head(mm)[2]
         IN IF "gif-file-id" \notin DOMAIN model_dict
            THEN BuildBlocksSkipping(Tail(mm), acc)
            ELSE BuildBlocksSkipping(Tail(mm),
                     acc \o <<ImageBlock(model_dict), DividerBlock>>)

\* the blocks built before the first model without a 'gif-file-id', or all
RECURSIVE BuildBlocks(_, _)
BuildBlocks(mm, acc) ==
    IF mm = <<>> THEN [raised |-> FALSE, blocks |-> acc]
    ELSE LET model_dict == Head(mm)[2]
         IN IF "gif-file-id" \notin DOMAIN model_dict
            THEN [raised |-> TRUE, blocks |-> acc]
            ELSE BuildBlocks(Tail(mm),
                             acc \o <<ImageBlock(model_dict), DividerBlock>>)

\* send_slack_message_blocks is entered: the gifs of today are listed
PublishEntry ==
    /\ gifs' = TodaysGifs(fs, TODAY)
    /\ blocks' = <<>>
    /\ pc' = "pub_upload"

\* the upload loop left at the first upload that is not ok
PubUploadStopping(gif, ok) ==
    /\ pc = "pub_upload"
    /\ gif \in gifs
    /\ ~ok => bad < MaxBad
    /\ LET mname == Mname(PathName(gif))
           id == FileId(run, Len(uploads) + 1)
       IN /\ uploads' = Append(uploads,
                 [channel |-> DictGet(props, "private-chan"), path |-> gif,
                  file |-> fs[gif], title |-> mname, ok |-> ok,
                  id |-> IF ok THEN id ELSE "None"])
          /\ log' = Append(log, <<"upload", mname>>)
          /\ bad' = IF ok THEN bad ELSE bad + 1
          /\ IF ok
             THEN /\ model_map' = SetFileId(model_map, mname, id)
                  /\ gifs' = gifs \ {gif}
                  /\ UNCHANGED <<pc, exc>>
             ELSE /\ pc' = "raised"
                  /\ exc' = "SlackApiError"
                  /\ UNCHANGED <<model_map, gifs>>
    /\ UNCHANGED <<TODAY, fs, dirs, run, retrVars, props, mi, secrets_file,
                   blocks, posted>>

\* one iteration of the upload loop; the directory listing fixes no order
PubUpload(gif, ok) ==
    /\ pc = "pub_upload"
    /\ gif \in gifs
    /\ ~ok => bad < MaxBad
    /\ LET mname == Mname(PathName(gif))
           id == FileId(run, Len(uploads) + 1)
       IN /\ uploads' = Append(uploads,
                 [channel |-> DictGet(props, "private-chan"), path |-> gif,
                  file |-> fs[gif], title |-> mname, ok |-> ok,
                  id |-> IF ok THEN id ELSE "None"])
          /\ log' = Append(log, <<"upload", mname>>)
          /\ bad' = IF ok THEN bad ELSE bad + 1
          /\ IF ok
             THEN IF KeyIndex(model_map, mname) = 0
                  THEN /\ pc' = "raised"
                       /\ exc' = "KeyError"
                       /\ UNCHANGED <<model_map, gifs>>
                  ELSE /\ model_map' = SetFileId(model_map, mname, id)
                       /\ gifs' = gifs \ {gif}
                       /\ UNCHANGED <<pc, exc>>
             ELSE /\ gifs' = gifs \ {gif}
                  /\ UNCHANGED <<model_map, pc, exc>>
    /\ UNCHANGED <<TODAY, fs, dirs, run, retrVars, props, mi, secrets_file,
                   blocks, posted>>

\* the uploads are over: the blocks are built and the message is posted
PubPost ==
    /\ pc = "pub_upload"
    /\ gifs = {}
    /\ LET built == BuildBlocks(model_map, <<HeaderBlock(TODAY)>>)
       IN /\ blocks' = built.blocks
          /\ IF built.raised \/ "public-chan" \notin DOMAIN props
             THEN /\ pc' = "raised"
                  /\ exc' = "KeyError"
                  /\ UNCHANGED <<posted, log>>
             ELSE /\ posted' = Append(posted,
                        [channel |-> props["public-chan"],
                         text |-> "Daily WX report incoming!",
                         blocks |-> built.blocks])
                  /\ log' = Append(log, <<"post">>)
                  /\ pc' = "done"
                  /\ UNCHANGED exc
    /\ UNCHANGED <<TODAY, fs, dirs, run, bad, retrVars, mainVars, gifs, uploads>>

-----------------------------------------------------------------------------
(* __main__ *)

SpanDays == 5

\* secretprops.properties as deployed, and with one thing wrong
GoodSecrets ==
    <<"# slack", "", "bot-token=xoxb-1=a", "user-token=xoxp-2",
      "private-chan= C1 ", "public-chan=C2">>

Without(lines, k) == SubSeq(lines, 1, k - 1) \o SubSeq(lines, k + 1, Len(lines))

SecretsFiles ==
    {GoodSecrets, Without(GoodSecrets, 3), Without(GoodSecrets, 4),
     Without(GoodSecrets, 6), GoodSecrets \o <<"oops">>}

\* the frames and the animations a complete run on day n leaves behind
RunLeaves(n) ==
    LET framesOf(m, ft) ==
            UNION {FramesOf(n - x, m, ft) : x \in 1..SpanDays}
        frames == framesOf(ModelMap0[1][1], ModelMap0[1][2].filetype)
                    \cup framesOf(ModelMap0[2][1], ModelMap0[2][2].filetype)
    IN [p \in frames \cup {GifPath(ModelMap0[k][1], n) : k \in 1..2} |->
          IF p \in frames THEN <<"frame", 0>>
          ELSE GifContent(SortedPaths({q \in frames : q.parent = Mname(p.name)}))]

\* DATA_DIR when the first process starts: only DATA_DIR/gifs, nothing at all,
\* or what a complete run on the day before left
Init ==
    /\ TODAY \in Todays
    /\ \/ fs = <<>> /\ dirs \in {{"gifs"}, {}}
       \/ /\ fs = RunLeaves(TODAY - 1)
          /\ dirs = {PathParent(p) : p \in DOMAIN RunLeaves(TODAY - 1)}
    /\ secrets_file \in SecretsFiles
    /\ pc = "start"
    /\ exc = "none"
    /\ run = 1
    /\ bad = 0
    /\ model = ""
    /\ filetype = ""
    /\ span_days = 0
    /\ dates_str = <<>>
    /\ filenames = {}
    /\ url_dict = <<>>
    /\ i = 0
    /\ resp = 0
    /\ gets = <<>>
    /\ cache0 = {}
    /\ props = <<>>
    /\ model_map = <<>>
    /\ mi = 0
    /\ log = <<>>
    /\ gifs = {}
    /\ uploads = <<>>
    /\ blocks = <<>>
    /\ posted = <<>>

\* the secrets are read, the clients are made and model_map is set up
MainReadSecrets ==
    /\ pc = "start"
    /\ log' = Append(log, <<"secrets">>)
    /\ LET got == read_secrets(secrets_file)
       IN IF got.raised
          THEN /\ pc' = "raised"
               /\ exc' = "ValueError"
               /\ UNCHANGED <<props, model_map, mi>>
          ELSE /\ props' = got.secrets
               /\ IF \/ "bot-token" \notin DOMAIN got.secrets
                     \/ "user-token" \notin DOMAIN got.secrets
                  THEN /\ pc' = "raised"
                       /\ exc' = "KeyError"
                       /\ UNCHANGED <<model_map, mi>>
                  ELSE /\ model_map' = ModelMap0
                       /\ mi' = 1
                       /\ pc' = "main_loop"
                       /\ UNCHANGED exc
    /\ UNCHANGED <<TODAY, fs, dirs, run, bad, retrVars, secrets_file, pubVars>>

\* the loop over model_map calls retrieve_imgs
MainRetrieve ==
    /\ pc = "main_loop"
    /\ mi <= Len(model_map)
    /\ RetrieveEntry(TODAY, model_map[mi][1], model_map[mi][2]["filetype"],
                     SpanDays)
    /\ log' = Append(log, <<"retrieve", model_map[mi][1]>>)
    /\ UNCHANGED <<TODAY, fs, dirs, exc, run, bad, mainVars, pubVars>>

\* retrieve_imgs has returned: build_gif is called, and the loop moves on
MainBuild ==
    /\ pc = "retr_done"
    /\ BuildGif(model_map[mi][1], "main_loop")
    /\ mi' = IF pc' = "main_loop" THEN mi + 1 ELSE mi
    /\ log' = Append(log, <<"build", model_map[mi][1]>>)
    /\ UNCHANGED <<TODAY, dirs, run, bad, filetype, span_days, dates_str,
                   filenames, url_dict, i, resp, gets, cache0, props, model_map,
                   secrets_file, pubVars>>

\* the loop over model_map is over: send_slack_message_blocks is called
MainPublish ==
    /\ pc = "main_loop"
    /\ mi > Len(model_map)
    /\ PublishEntry
    /\ log' = Append(log, <<"publish">>)
    /\ UNCHANGED <<TODAY, fs, dirs, exc, run, bad, retrVars, mainVars, uploads,
                   posted>>

\* the scheduler starts the next process, the same day or the day after
NextRun ==
    /\ pc \in {"done", "raised"}
    /\ run < MaxRuns
    /\ run' = run + 1
    /\ TODAY' \in {TODAY, TODAY + 1}
    /\ pc' = "start"
    /\ exc' = "none"
    /\ model' = ""
    /\ filetype' = ""
    /\ span_days' = 0
    /\ dates_str' = <<>>
    /\ filenames' = {}
    /\ url_dict' = <<>>
    /\ i' = 0
    /\ resp' = 0
    /\ gets' = <<>>
    /\ cache0' = {}
    /\ props' = <<>>
    /\ model_map' = <<>>
    /\ mi' = 0
    /\ log' = <<>>
    /\ gifs' = {}
    /\ uploads' = <<>>
    /\ blocks' = <<>>
    /\ posted' = <<>>
    /\ UNCHANGED <<fs, dirs, bad, secrets_file>>

Next ==
    \/ MainReadSecrets
    \/ MainRetrieve
    \/ \E status \in Statuses : RetrieveGet(status)
    \/ RetrieveReturn
    \/ MainBuild
    \/ MainPublish
    \/ \E gif \in gifs, ok \in BOOLEAN : PubUpload(gif, ok)
    \/ PubPost
    \/ NextRun

Spec == Init /\ [][Next]_vars

-----------------------------------------------------------------------------
(* What the claims speak of *)

\* the number a string of decimal digits writes
RECURSIVE DigitsValue(_, _)
DigitsValue(s, acc) ==
    IF s = "" THEN acc
    ELSE DigitsValue(Tail(s), 10 * acc + CharRank[Head(s)] - CharRank["0"])

\* the ordinal of the date a YYYYMMDD string writes (strptime, then toordinal)
ParseCompact(s) ==
    LET y   == DigitsValue(SubSeq(s, 1, 4), 0)
        m   == DigitsValue(SubSeq(s, 5, 6), 0)
        d   == DigitsValue(SubSeq(s, 7, 8), 0)
        y1  == IF m <= 2 THEN y - 1 ELSE y
        era == y1 \div 400
        yoe == y1 - era * 400
        mp  == IF m > 2 THEN m - 3 ELSE m + 9
        doy == (153 * mp + 2) \div 5 + d - 1
        doe == yoe * 365 + yoe \div 4 - yoe \div 100 + doy
    IN era * 146097 + doe - 305

\* the dates of the window, as ordinals
WindowDays == {ParseCompact(dates_str[k]) : k \in DOMAIN dates_str}

SetMax(S) == CHOOSE x \in S : \A y \in S : y <= x
SetMin(S) == CHOOSE x \in S : \A y \in S : x <= y

\* the names retrieve_imgs queued, and the names it should have looked for
Queued == {url_dict[k][1] : k \in DOMAIN url_dict}

ExpectedNames ==
    {Filename(FmtCompact(TODAY - x), tod, model, filetype) :
        x \in 1..span_days, tod \in {"00", "12"}}

\* every GET of the current run so far was answered with 200
NoNon200 == \A k \in DOMAIN log : log[k][1] # "non200"

InRetrieve == pc \in {"retr_loop", "retr_done"} \/ (pc = "raised" /\ gets # <<>>)

-----------------------------------------------------------------------------
(* C1 *)

\* the step is a GET, and the file it asks for
IsGet == Len(gets') = Len(gets) + 1
GetTarget == JoinPath(model, url_dict[i + 1][1])

NoGetOfCached ==
    IsGet => /\ GetTarget \notin DOMAIN fs
             /\ GetTarget.name \notin {p.name : p \in DOMAIN fs}

NoCachedFileTouched ==
    \A p \in DOMAIN fs : p \in DOMAIN fs' /\ fs'[p] = fs[p]

\* retrieve_imgs is called again after it returned, with nothing changed
SameCallAgain ==
    /\ pc = "retr_done" /\ pc' = "retr_loop"
    /\ model' = model /\ filetype' = filetype /\ span_days' = span_days
    /\ TODAY' = TODAY /\ fs' = fs

RerunIssuesNothing == SameCallAgain => url_dict' = <<>>

\* C1: over any sequence of retrieve_imgs runs, no GET is issued for a file
\* already in the cache, no cached file is overwritten or removed, and a run
\* that follows a run that returned without error, with the cache and the
\* window unchanged, issues no request at all.
C1_NeverRefetched ==
    [][NoGetOfCached /\ NoCachedFileTouched /\ RerunIssuesNothing]_vars

\* the part of C1 that holds: what is cached is neither asked for nor touched
C1_CachedIsLeftAlone == [][NoGetOfCached /\ NoCachedFileTouched]_vars

-----------------------------------------------------------------------------
(* C2 *)

\* C2 as stated: for span_days = 5 the window holds exactly 5 distinct dates,
\* the most recent is yesterday, the oldest is 5 days before yesterday, and
\* today is not in it.
C2_WindowAsStated ==
    span_days = 5 =>
        /\ Cardinality(WindowDays) = 5
        /\ SetMax(WindowDays) = TODAY - 1
        /\ SetMin(WindowDays) = (TODAY - 1) - 5
        /\ TODAY \notin WindowDays

\* C2 amended: for span_days = 5 the window holds exactly 5 distinct dates,
\* the most recent is yesterday, the oldest is 5 days before today (4 days
\* before yesterday), and today is not in it.
C2_Window ==
    span_days = 5 =>
        /\ Cardinality(WindowDays) = 5
        /\ Len(dates_str) = 5
        /\ SetMax(WindowDays) = TODAY - 1
        /\ SetMin(WindowDays) = TODAY - 5
        /\ TODAY \notin WindowDays

\* a window of 5 dates that crosses 29 February 2024 has been computed
C2_Witness ==
    /\ span_days = 5
    /\ Len(dates_str) = 5
    /\ dates_str[4] = "20240229"
    /\ pc = "retr_loop"

-----------------------------------------------------------------------------
(* C3 *)

\* C3: whenever a GET is answered with a status other than 200, retrieve_imgs
\* raises, the file is not written, and no further GET follows (the call is over).
C3_Non200Raises ==
    resp \notin {0, 200} =>
        /\ pc = "raised"
        /\ exc = "HTTPError"
        /\ JoinPath(model, url_dict[i + 1][1]) \notin DOMAIN fs

-----------------------------------------------------------------------------
(* C4 *)

\* the example of the specification
C4_Example ==
    /\ TODAY = 738888 /\ span_days = 1 /\ model = "M1" /\ filetype = ".png"
    /\ cache0 = {JoinPath("M1", "20240101_000000_M1.png"),
                 JoinPath("M1", "20240101_120000_M1.png")}

\* C4: the files retrieve_imgs queues are exactly the names
\* YYYYMMDD_HH0000_<model><ext> of the dates of the window and the hours 00 and
\* 12 that are not in the cache, each once, with the URL of its date; and when
\* every GET was answered with 200 the cache holds what it held plus exactly
\* the queued files.
C4_QueueAndCache ==
    InRetrieve =>
        /\ Queued = ExpectedNames \ {p.name : p \in cache0}
        /\ Len(url_dict) = Cardinality(Queued)
        /\ \A k \in DOMAIN url_dict :
              url_dict[k][2] = "https://weather.ral.ucar.edu/data/upper/"
                                 \o SubSeq(url_dict[k][1], 1, 8) \o "/"
                                 \o url_dict[k][1]
        /\ (pc = "retr_done" /\ NoNon200) =>
              DOMAIN fs = cache0 \cup {JoinPath(model, f) : f \in Queued}
        /\ C4_Example =>
              /\ url_dict =
                   << <<"20240102_000000_M1.png",
                        "https://weather.ral.ucar.edu/data/upper/20240102/20240102_000000_M1.png">>,
                      <<"20240102_120000_M1.png",
                        "https://weather.ral.ucar.edu/data/upper/20240102/20240102_120000_M1.png">> >>
              /\ (pc = "retr_done" /\ NoNon200) => Cardinality(DOMAIN fs) = 4

\* the example has run to its end, every GET answered with 200
C4_Witness ==
    /\ C4_Example
    /\ pc = "retr_done"
    /\ NoNon200
    /\ Len(gets) = 2
    /\ Cardinality(DOMAIN fs) = 4

-----------------------------------------------------------------------------
(* C5 *)

\* the files below the cache directory of model m
FilesUnder(m) == {p \in DOMAIN fs : p.parent = m}

\* C5: the animation build_gif made for a model holds exactly as many frames as
\* there are files below the model's cache directory, every one of them, also
\* those an earlier run fetched, in ascending order of their paths.
C5_AllFramesInOrder ==
    \A k \in DOMAIN model_map :
        k < mi =>
            LET m == model_map[k][1]
                out == JoinPath("gifs", m \o "_" \o FmtF(TODAY) \o ".gif")
            IN /\ out \in DOMAIN fs
               /\ LET fr == fs[out].frames
                  IN /\ Len(fr) = Cardinality(FilesUnder(m))
                     /\ Len(fr) > 0
                     /\ {fr[j] : j \in DOMAIN fr} = FilesUnder(m)
                     /\ \A j \in 1..(Len(fr) - 1) :
                           StrLess(fr[j].name, fr[j + 1].name)

\* a second run has built an animation from frames of both runs
C5_Witness ==
    /\ run = 2
    /\ mi > 1
    /\ LET fr == fs[GifPath(model_map[1][1], TODAY)].frames
       IN /\ \E j \in DOMAIN fr : fs[fr[j]] = <<"frame", 2>>
          /\ \E j \in DOMAIN fr : fs[fr[j]] = <<"frame", 1>>

-----------------------------------------------------------------------------
(* C6 *)

\* C6: when build_gif is called for a model with no file below its cache
\* directory, it raises StopIteration, uncaught, and no file is created or
\* changed.
C6_EmptyCacheRaises ==
    [][(run' = run + 1 /\ {p \in DOMAIN fs : p.parent = model'} = {}) =>
          (pc' = "raised" /\ exc' = "StopIteration" /\ fs' = fs)]_vars

\* build_gif raised for M1, whose earlier animation of the day is as it was
C6_Witness ==
    /\ pc = "raised"
    /\ exc = "StopIteration"
    /\ model = "M1"
    /\ {p \in DOMAIN fs : p.parent = "M1"} = {}
    /\ GifPath("M1", TODAY) \in DOMAIN fs
    /\ fs[GifPath("M1", TODAY)] = GifContent(<<"earlier">>)

-----------------------------------------------------------------------------
(* C7 *)

SomeUploadFailed == \E j \in DOMAIN uploads : ~uploads[j].ok

HasFileId(k) == "gif-file-id" \in DOMAIN model_map[k][2]

\* C7: when an upload was answered not ok, model_map holds a file id for
\* exactly the models whose upload was answered ok, building the blocks raises
\* KeyError, and no message is posted.
C7_FailedUploadNoPost ==
    SomeUploadFailed =>
        /\ posted = <<>>
        /\ \A k \in DOMAIN model_map :
              HasFileId(k) <=>
                  \E j \in DOMAIN uploads :
                      /\ uploads[j].ok
                      /\ uploads[j].path = GifPath(model_map[k][1], TODAY)
        /\ pc # "pub_upload" =>
              /\ pc = "raised"
              /\ exc = "KeyError"
              /\ \E k \in DOMAIN model_map : ~HasFileId(k)

\* the first model's upload was ok, the second's was not, and the blocks were
\* built up to the second model
C7_Witness ==
    /\ pc = "raised"
    /\ exc = "KeyError"
    /\ "public-chan" \in DOMAIN props
    /\ Len(uploads) = 2
    /\ SomeUploadFailed
    /\ HasFileId(1) /\ ~HasFileId(2)
    /\ Len(blocks) = 3
    /\ posted = <<>>

-----------------------------------------------------------------------------
(* C8 *)

Published == \E k \in DOMAIN log : log[k] = <<"publish">>

UploadsOf(g) == {j \in DOMAIN uploads : uploads[j].path = g}

\* C8: an upload answered not ok does not end the upload loop: every animation
\* of today is uploaded exactly once by the time the loop is over, and until
\* then it is uploaded or still to come.
C8_EveryGifUploadedOnce ==
    Published =>
        /\ \A g \in TodaysGifs(fs, TODAY) :
              Cardinality(UploadsOf(g)) + (IF g \in gifs THEN 1 ELSE 0) = 1
        /\ \A j \in DOMAIN uploads : uploads[j].path \in TodaysGifs(fs, TODAY)
        /\ pc # "pub_upload" => gifs = {}

\* the first upload was answered not ok and the second was made all the same
C8_Witness ==
    /\ Len(uploads) = 2
    /\ ~uploads[1].ok
    /\ uploads[2].ok
    /\ uploads[1].path # uploads[2].path
    /\ gifs = {}

-----------------------------------------------------------------------------
(* C9 *)

IsStage(e) == e[1] \in {"secrets", "retrieve", "build", "publish"}

StagesOfMain ==
    <<  <<"secrets">>,
        <<"retrieve", ModelMap0[1][1]>>, <<"build", ModelMap0[1][1]>>,
        <<"retrieve", ModelMap0[2][1]>>, <<"build", ModelMap0[2][1]>>,
        <<"publish">> >>

IsPrefix(a, b) == Len(a) <= Len(b) /\ a = SubSeq(b, 1, Len(a))

\* the stages come in order, the message is posted at most once, and
\* uploads and the post come only after every model was retrieved and built
StagesInOrder ==
    /\ IsPrefix(SelectSeq(log, IsStage), StagesOfMain)
    /\ Len(posted) <= 1
    /\ (uploads # <<>> \/ posted # <<>>) =>
          /\ SelectSeq(log, IsStage) = StagesOfMain
          /\ mi > Len(model_map)
    /\ exc # "none" => pc = "raised"

\* C9: the stages run in the order secrets, then retrieve and build for each
\* model in turn, then publish; the message is posted at most once and only
\* after every model was retrieved and built without error; and after a fatal
\* error (a non-200 GET among them) nothing is uploaded and nothing is posted.
C9_StagesAndFatalErrors ==
    /\ StagesInOrder
    /\ ~NoNon200 => (uploads = <<>> /\ posted = <<>>)

-----------------------------------------------------------------------------
(* C10 *)

\* C10: a posted message has 1 + 2N blocks for the N models: the header of
\* the day, then for each model, in the order of model_map, an image block with
\* the model's name and the id its own animation's upload returned, and a
\* divider.
C10_MessageBlocks ==
    \A n \in DOMAIN posted :
        LET b == posted[n].blocks
            N == Len(ModelMap0)
        IN /\ Len(b) = 1 + 2 * N
           /\ b[1].type = "header"
           /\ b[1].text.text = "WX Report for " \o FmtF(TODAY)
           /\ \A k \in 1..N :
                /\ b[2 * k].type = "image"
                /\ b[2 * k].title.text = ModelMap0[k][2].name
                /\ \E j \in DOMAIN uploads :
                      /\ uploads[j].ok
                      /\ uploads[j].path =
                           JoinPath("gifs", ModelMap0[k][1] \o "_"
                                              \o FmtF(TODAY) \o ".gif")
                      /\ uploads[j].title = ModelMap0[k][1]
                      /\ uploads[j].id = b[2 * k].slack_file.id
                /\ b[2 * k + 1] = [type |-> "divider"]

\* a message was posted after the animations were uploaded in the other order
C10_Witness ==
    /\ pc = "done"
    /\ Len(posted) = 1
    /\ Len(uploads) = 2
    /\ uploads[1].title = "KFWD"
    /\ uploads[2].title = "upaCNTR_200"
    /\ posted[1].blocks[2].slack_file.id = uploads[2].id

====
